---- MODULE Spec2Model ----
(***************************************************************************)
(* collex: a Factory that wraps an OpenTelemetry Collector ExporterFactory *)
(* (package collex) and the span-exporter adapter that sits between the    *)
(* OpenTelemetry-Go SDK and the wrapped Collector traces consumer          *)
(* (spanExporterAdapter of the clickhouse demo, the only implementation of *)
(* the adapter's ExportSpans/Shutdown in the sources).                     *)
(*                                                                         *)
(* The Collector side (ExporterFactory, traces exporter) and zap are       *)
(* external collaborators: they are modelled as test doubles whose every   *)
(* invocation is counted, so that "forwarded", "not invoked" and "returned *)
(* unchanged" are observable.                                              *)
(***************************************************************************)
EXTENDS Integers, Sequences, FiniteSets, TLC

\* ------------------------------------------------------------------ bounds
\* Number of goroutines that may call the adapter concurrently.
NumCallers == 2
\* Number of ExportSpans/Shutdown calls made on the adapter in one run.
MaxCalls == 3
\* Longest span batch handed to ExportSpans.
MaxBatch == 2
\* Longest span batch handed to the translator.
MaxSpans == 3

Callers == 1..NumCallers

\* ------------------------------------------------------------- Go values
\* A nil error, and a nil pointer / nil interface value.
NoErr == "nil"
NilCfg == "nil"
NilObj == [nil |-> TRUE]

\* ------------------------------------------------- external collaborators
\* zap.NewProduction(): a logger, or an error.
ZapOutcomes ==
  { [logger |-> "zapProd", err |-> NoErr],
    [logger |-> "none", err |-> "ErrZapBuild"] }

\* Caller-supplied *component.ExporterCreateSettings (nil, or a settings value).
CallerSettings ==
  { NilObj,
    [Logger |-> "callerLogger", TracerProvider |-> "callerTP",
     Command |-> "demo", Description |-> "caller settings", Version |-> "v1"] }

\* Caller-supplied config.Exporter values (nil, a valid one, an invalid one).
CallerConfigs == { NilCfg, "cfgCaller", "cfgInvalid" }

\* Test doubles of component.ExporterFactory.  defaultCfg is what
\* CreateDefaultConfig returns; createErr is returned by CreateTracesExporter
\* for every configuration (a factory without traces support); a factory
\* rejects "cfgInvalid".  onIngest/onShutdown are what the exporter it builds
\* answers to ConsumeTraces/Shutdown ("block": does not return before the
\* caller's context is done).
CollFactories ==
  { [name |-> "ok",      defaultCfg |-> "cfgDefault", createErr |-> NoErr,
     onIngest |-> "nil",        onShutdown |-> "nil"],
    [name |-> "failing", defaultCfg |-> "cfgDefault", createErr |-> NoErr,
     onIngest |-> "ErrSinkDown", onShutdown |-> "ErrClose"],
    [name |-> "slow",    defaultCfg |-> "cfgSlowDefault", createErr |-> NoErr,
     onIngest |-> "block",      onShutdown |-> "nil"],
    [name |-> "notraces", defaultCfg |-> "cfgDefault",
     createErr |-> "ErrDataTypeIsNotSupported",
     onIngest |-> "nil",        onShutdown |-> "nil"] }

\* f.collFactory.CreateDefaultConfig()
CreateDefaultConfig(f) == f.defaultCfg

\* f.collFactory.CreateTracesExporter(ctx, set, cfg): (exporter, error)
CreateTracesExporter(f, ctx, set, cfg) ==
  IF f.createErr # NoErr THEN [exp |-> NilObj, err |-> f.createErr]
  ELSE IF cfg = "cfgInvalid" THEN [exp |-> NilObj, err |-> "ErrInvalidConfig"]
  ELSE [exp |-> [factory |-> f.name, cfg |-> cfg, set |-> set,
                 onIngest |-> f.onIngest, onShutdown |-> f.onShutdown],
        err |-> NoErr]

\* ---------------------------------------------------------------- Factory
\* The settings NewFactory builds when set is nil.
DefaultCreateSettings(logger) ==
  [Logger |-> logger, TracerProvider |-> "globalTP",
   Command |-> "collex",
   Description |-> "OpenTelemetry Collector to OpenTelemetry Go translator",
   Version |-> "latest"]

\* A NewFactory that builds the production logger before looking at set.
NewFactory_AlwaysLogger(f, set, z) ==
  IF z.err # NoErr
  THEN [fac |-> NilObj, err |-> z.err]
  ELSE IF set = NilObj
       THEN [fac |-> [createCfg |-> DefaultCreateSettings(z.logger),
                      collFactory |-> f],
             err |-> NoErr]
       ELSE [fac |-> [createCfg |-> set, collFactory |-> f], err |-> NoErr]

\* NewFactory(f, set) with zap.NewProduction() answering z: (*Factory, error)
NewFactory(f, set, z) ==
  IF set = NilObj
  THEN IF z.err # NoErr
       THEN [fac |-> NilObj, err |-> z.err]
       ELSE [fac |-> [createCfg |-> DefaultCreateSettings(z.logger),
                      collFactory |-> f],
             err |-> NoErr]
  ELSE [fac |-> [createCfg |-> set, collFactory |-> f], err |-> NoErr]

\* A SpanExporter that drops the error of CreateTracesExporter.
SpanExporter_SwallowsError(f, ctx, cfg) ==
  LET useDefault == cfg = NilCfg
      c == IF useDefault THEN CreateDefaultConfig(f.collFactory) ELSE cfg
      r == CreateTracesExporter(f.collFactory, ctx, f.createCfg, c)
      calls == (IF useDefault
                THEN << [m |-> "CreateDefaultConfig", ret |-> c] >>
                ELSE << >>)
               \o << [m |-> "CreateTracesExporter", cfg |-> c,
                      set |-> f.createCfg, ret |-> r] >>
  IN [exp |-> [cexp |-> r.exp], err |-> NoErr, calls |-> calls]

\* A SpanExporter that takes the factory default whatever cfg is.
SpanExporter_AlwaysDefault(f, ctx, cfg) ==
  LET c == CreateDefaultConfig(f.collFactory)
      r == CreateTracesExporter(f.collFactory, ctx, f.createCfg, c)
      calls == << [m |-> "CreateDefaultConfig", ret |-> c],
                  [m |-> "CreateTracesExporter", cfg |-> c,
                   set |-> f.createCfg, ret |-> r] >>
  IN IF r.err # NoErr
     THEN [exp |-> NilObj, err |-> r.err, calls |-> calls]
     ELSE [exp |-> [cexp |-> r.exp], err |-> NoErr, calls |-> calls]

\* (f *Factory) SpanExporter(ctx, cfg): (trace.SpanExporter, error).
\* calls lists the invocations made on the wrapped collector factory.
SpanExporter(f, ctx, cfg) ==
  LET useDefault == cfg = NilCfg
      c == IF useDefault THEN CreateDefaultConfig(f.collFactory) ELSE cfg
      r == CreateTracesExporter(f.collFactory, ctx, f.createCfg, c)
      calls == (IF useDefault
                THEN << [m |-> "CreateDefaultConfig", ret |-> c] >>
                ELSE << >>)
               \o << [m |-> "CreateTracesExporter", cfg |-> c,
                      set |-> f.createCfg, ret |-> r] >>
  IN IF r.err # NoErr
     THEN [exp |-> NilObj, err |-> r.err, calls |-> calls]
     ELSE [exp |-> [cexp |-> r.exp], err |-> NoErr, calls |-> calls]

\* --------------------------------------------------------- TracesExporter
\* The collector traces exporters a program can hand to TracesExporter.
CollExporters ==
  { CreateTracesExporter(f, "live", DefaultCreateSettings("zapProd"),
                         f.defaultCfg).exp :
      f \in { g \in CollFactories : g.createErr = NoErr } }

\* TracesExporter(e): "TODO", returns nil.
TracesExporter(e) == NilObj

\* ------------------------------------------------- wrapped traces consumer
\* What the test double of the wrapped consumer has seen so far: how often
\* ConsumeTraces and Shutdown were invoked on it, the last batch it was
\* handed, and how many ConsumeTraces arrived after a Shutdown had started.
FreshConsumer == [ingests |-> 0, shutdowns |-> 0, lateIngests |-> 0, got |-> << >>]

\* e.cexp.ConsumeTraces(ctx, td) on the test double: (error, consumer after).
\* A blocking consumer returns only once ctx is done, with the context's error.
ConsumeTraces(cexp, cons, ctx, td) ==
  [ret  |-> IF cexp.onIngest = "block"
            THEN (IF ctx = "done" THEN "context deadline exceeded" ELSE "pending")
            ELSE cexp.onIngest,
   cons |-> [cons EXCEPT !.ingests = @ + 1,
                         !.lateIngests = @ + (IF cons.shutdowns > 0 THEN 1 ELSE 0),
                         !.got = td]]

\* e.cexp.Shutdown(ctx) on the test double: (error, consumer after).
ConsumerShutdown(cexp, cons, ctx) ==
  [ret |-> cexp.onShutdown, cons |-> [cons EXCEPT !.shutdowns = @ + 1]]

\* ----------------------------------------------------------------- adapter
\* A Shutdown that forwards to the wrapped exporter on every call.
Shutdown_Forwarding(e, cons, ctx) == ConsumerShutdown(e.cexp, cons, ctx)

\* (e *spanExporterAdapter) ExportSpans(ctx, spans): prints the number of
\* spans and returns nil.  ctx and e.cexp are not used.
ExportSpans(e, cons, ctx, spans) ==
  [ret |-> NoErr, cons |-> cons, printed |-> Len(spans)]

\* (e *spanExporterAdapter) Shutdown(ctx): returns nil.
Shutdown(e, cons, ctx) ==
  [ret |-> NoErr, cons |-> cons]

\* ------------------------------------------------- demo simulatedExporter
\* The clickhouseexporter.Config literals the demo builds its exporter with.
DemoConfigs ==
  { [Endpoint |-> "tcp://localhost:9000", Database |-> "otel",
     TracesTableName |-> "otel_traces", CreateSchema |-> TRUE],
    [Endpoint |-> "tcp://localhost:9000", Database |-> "otel",
     TracesTableName |-> "otel_traces", CreateSchema |-> FALSE] }

\* A simulatedExporter whose ExportSpans hands the batch to the collector side.
SimExportSpans_Sends(e, cons, ctx, spans) ==
  [ret |-> NoErr, e |-> e,
   cons |-> [cons EXCEPT !.ingests = @ + 1, !.got = spans],
   printed |-> [line |-> "Exporting", n |-> Len(spans),
                endpoint |-> e.config.Endpoint]]

\* (e *simulatedExporter) ExportSpans(ctx, spans): prints the number of spans
\* and the configured endpoint, returns nil.
SimExportSpans(e, cons, ctx, spans) ==
  [ret |-> NoErr, e |-> e, cons |-> cons,
   printed |-> [line |-> "Exporting", n |-> Len(spans),
                endpoint |-> e.config.Endpoint]]

\* (e *simulatedExporter) Shutdown(ctx): prints a line, returns nil.
SimShutdown(e, cons, ctx) ==
  [ret |-> NoErr, e |-> e, cons |-> cons,
   printed |-> [line |-> "Shutting down ClickHouse exporter", n |-> -1,
                endpoint |-> ""]]

\* -------------------------------------------------------------- translator
\* The translator (transmute.Spans in the adapter's comment) has no code in
\* the sources; it is written here from the design: partition the batch by
\* Resource value, then by instrumentation-scope value inside each Resource,
\* groups in the order of first occurrence.
\*
\* SDK-side Resources and scopes are objects (ptr) carrying a value (val):
\* two objects can be equal by value.
Resources == { [ptr |-> 1, val |-> "A"], [ptr |-> 2, val |-> "A"],
               [ptr |-> 3, val |-> "B"] }
Scopes == { [ptr |-> 1, val |-> "X"], [ptr |-> 2, val |-> "X"],
            [ptr |-> 3, val |-> "Y"] }

\* The batches of at most MaxSpans spans; a span is named by its position.
SpanBatches ==
  UNION { { [i \in 1..n |-> [name |-> i, res |-> f[i][1], scope |-> f[i][2]]] :
              f \in [1..n -> Resources \X Scopes] } : n \in 0..MaxSpans }

\* s without the later occurrences of its elements.
RECURSIVE Dedup(_)
Dedup(s) ==
  IF s = << >> THEN << >>
  ELSE LET d == Dedup(SubSeq(s, 1, Len(s) - 1))
           x == s[Len(s)]
       IN IF \E i \in 1..Len(d) : d[i] = x THEN d ELSE Append(d, x)

\* The Collector-side span records of the SDK spans sp.
TranslateSpans(sp) == [i \in 1..Len(sp) |-> [name |-> sp[i].name]]

\* A translate whose groups are keyed by the Resource and scope objects.
Translate_ByIdentity(b) ==
  LET rs == Dedup([i \in 1..Len(b) |-> b[i].res])
      ScopeGroups(r) ==
        LET OfR(sp) == sp.res = r
            ofR == SelectSeq(b, OfR)
            ss == Dedup([i \in 1..Len(ofR) |-> ofR[i].scope])
            Group(sc) == LET OfS(sp) == sp.scope = sc
                         IN [scope |-> sc.val,
                             spans |-> TranslateSpans(SelectSeq(ofR, OfS))]
        IN [j \in 1..Len(ss) |-> Group(ss[j])]
  IN [k \in 1..Len(rs) |-> [resource |-> rs[k].val,
                            scopeSpans |-> ScopeGroups(rs[k])]]

\* A translate whose Resource groups come out in the reverse order.
Translate_Reversed(b) ==
  LET rs == Dedup([i \in 1..Len(b) |-> b[i].res.val])
      ScopeGroups(r) ==
        LET OfR(sp) == sp.res.val = r
            ofR == SelectSeq(b, OfR)
            ss == Dedup([i \in 1..Len(ofR) |-> ofR[i].scope.val])
            Group(sc) == LET OfS(sp) == sp.scope.val = sc
                         IN [scope |-> sc,
                             spans |-> TranslateSpans(SelectSeq(ofR, OfS))]
        IN [j \in 1..Len(ss) |-> Group(ss[j])]
  IN [k \in 1..Len(rs) |-> [resource |-> rs[Len(rs) + 1 - k],
                            scopeSpans |-> ScopeGroups(rs[Len(rs) + 1 - k])]]

\* translate(batch): the TraceRecord, Resource -> ScopeSpans -> Span.
Translate(b) ==
  LET rs == Dedup([i \in 1..Len(b) |-> b[i].res.val])
      ScopeGroups(r) ==
        LET OfR(sp) == sp.res.val = r
            ofR == SelectSeq(b, OfR)
            ss == Dedup([i \in 1..Len(ofR) |-> ofR[i].scope.val])
            Group(sc) == LET OfS(sp) == sp.scope.val = sc
                         IN [scope |-> sc,
                             spans |-> TranslateSpans(SelectSeq(ofR, OfS))]
        IN [j \in 1..Len(ss) |-> Group(ss[j])]
  IN [k \in 1..Len(rs) |-> [resource |-> rs[k],
                            scopeSpans |-> ScopeGroups(rs[k])]]

\* -------------------------------------------------------------- the state
VARIABLES
  nf,          \* the NewFactory call made (arguments and results), or NilObj
  se,          \* the Factory.SpanExporter call made, or NilObj
  exp,         \* the adapter SpanExporter returned, or NilObj
  cons,        \* what the wrapped consumer has seen
  pc,          \* per caller: "idle", or inside "export" / "shutdown"
  call,        \* per caller: the call in flight
  nCalls,      \* calls started on the adapter
  shutStarted, \* Shutdown calls started on the adapter
  shutOk,      \* Shutdown calls that returned nil
  last,        \* the call that returned last
  te,          \* the TracesExporter call made (argument and result), or NilObj
  sim,         \* the demo's simulatedExporter, or NilObj
  simCalls,    \* calls made on the simulatedExporter
  simShut,     \* whether a Shutdown of the simulatedExporter has returned nil
  simLast,     \* the call on the simulatedExporter that returned last
  batch,       \* the span batch handed to the translator
  td           \* the translator's output for batch, once it has run

vars == << nf, se, exp, cons, pc, call, nCalls, shutStarted, shutOk, last,
           te, sim, simCalls, simShut, simLast, batch, td >>

\* The state of the demo exporter and of the translator.
simVars == << sim, simCalls, simShut, simLast >>
transVars == << batch, td >>

NoCall == [op |-> "none"]

\* Span batches: the SDK hands over an ordered slice of read-only spans.
Batches == { [i \in 1..n |-> i] : n \in 0..MaxBatch }

\* context.Background(), or a context derived from it whose deadline has not
\* elapsed yet: the context a caller hands to a call.
Background == "live"

\* The translator has not run.
NoTranslation == [done |-> FALSE, out |-> << >>]

Init ==
  /\ nf = NilObj
  /\ se = NilObj
  /\ exp = NilObj
  /\ cons = FreshConsumer
  /\ pc = [p \in Callers |-> "idle"]
  /\ call = [p \in Callers |-> NoCall]
  /\ nCalls = 0
  /\ shutStarted = 0
  /\ shutOk = 0
  /\ last = NoCall
  /\ te = NilObj
  /\ sim = NilObj
  /\ simCalls = 0
  /\ simShut = FALSE
  /\ simLast = NoCall
  /\ batch = << >>
  /\ td = NoTranslation

\* The program calls collex.NewFactory(f, set).  A run builds one exporter:
\* through a Factory, with TracesExporter, or the demo's simulatedExporter.
DoNewFactory ==
  /\ nf = NilObj
  /\ te = NilObj
  /\ sim = NilObj
  /\ \E f \in CollFactories, set \in CallerSettings, z \in ZapOutcomes :
       LET r == NewFactory(f, set, z)
       IN nf' = [f |-> f, set |-> set, z |-> z, fac |-> r.fac, err |-> r.err]
  /\ UNCHANGED << se, exp, cons, pc, call, nCalls, shutStarted, shutOk, last >>
  /\ UNCHANGED << te, simVars, transVars >>

\* The program calls factory.SpanExporter(ctx, cfg) on the Factory it got.
DoSpanExporter ==
  /\ nf # NilObj
  /\ nf.err = NoErr
  /\ se = NilObj
  /\ \E cfg \in CallerConfigs :
       LET r == SpanExporter(nf.fac, Background, cfg)
       IN /\ se' = [cfg |-> cfg, ctx |-> Background, exp |-> r.exp, err |-> r.err,
                    calls |-> r.calls]
          /\ exp' = r.exp
  /\ UNCHANGED << nf, cons, pc, call, nCalls, shutStarted, shutOk, last >>
  /\ UNCHANGED << te, simVars, transVars >>

\* Caller p enters ExportSpans(ctx, spans).
CallExportSpans(p) ==
  /\ exp # NilObj
  /\ pc[p] = "idle"
  /\ nCalls < MaxCalls
  /\ \E spans \in Batches :
       call' = [call EXCEPT ![p] =
                  [op |-> "export", spans |-> spans, ctx |-> Background,
                   afterShutdown |-> shutOk > 0, nth |-> 0]]
  /\ pc' = [pc EXCEPT ![p] = "export"]
  /\ nCalls' = nCalls + 1
  /\ UNCHANGED << nf, se, exp, cons, shutStarted, shutOk, last >>
  /\ UNCHANGED << te, simVars, transVars >>

\* Caller p enters Shutdown(ctx).
CallShutdown(p) ==
  /\ exp # NilObj
  /\ pc[p] = "idle"
  /\ nCalls < MaxCalls
  /\ call' = [call EXCEPT ![p] =
                  [op |-> "shutdown", spans |-> << >>, ctx |-> Background,
                   afterShutdown |-> shutOk > 0, nth |-> shutStarted + 1]]
  /\ pc' = [pc EXCEPT ![p] = "shutdown"]
  /\ nCalls' = nCalls + 1
  /\ shutStarted' = shutStarted + 1
  /\ UNCHANGED << nf, se, exp, cons, shutOk, last >>
  /\ UNCHANGED << te, simVars, transVars >>

\* The deadline of the context of p's call elapses while the call is in flight.
CtxDone(p) ==
  /\ pc[p] # "idle"
  /\ call[p].ctx = "live"
  /\ call' = [call EXCEPT ![p].ctx = "done"]
  /\ UNCHANGED << nf, se, exp, cons, pc, nCalls, shutStarted, shutOk, last >>
  /\ UNCHANGED << te, simVars, transVars >>

\* Caller p runs the body of ExportSpans and returns.
ReturnExportSpans(p) ==
  /\ pc[p] = "export"
  /\ LET r == ExportSpans(exp, cons, call[p].ctx, call[p].spans)
     IN /\ r.ret # "pending"
        /\ cons' = r.cons
        /\ last' = [op |-> "export", ret |-> r.ret,
                    ctx |-> call[p].ctx,
                    afterShutdown |-> call[p].afterShutdown, nth |-> 0,
                    ingests |-> r.cons.ingests - cons.ingests,
                    shutdowns |-> r.cons.shutdowns - cons.shutdowns,
                    got |-> r.cons.got, printed |-> r.printed]
  /\ pc' = [pc EXCEPT ![p] = "idle"]
  /\ call' = [call EXCEPT ![p] = NoCall]
  /\ UNCHANGED << nf, se, exp, nCalls, shutStarted, shutOk >>
  /\ UNCHANGED << te, simVars, transVars >>

\* Caller p runs the body of Shutdown and returns.
ReturnShutdown(p) ==
  /\ pc[p] = "shutdown"
  /\ LET r == Shutdown(exp, cons, call[p].ctx)
     IN /\ cons' = r.cons
        /\ shutOk' = IF r.ret = NoErr THEN shutOk + 1 ELSE shutOk
        /\ last' = [op |-> "shutdown", ret |-> r.ret,
                    ctx |-> call[p].ctx,
                    afterShutdown |-> call[p].afterShutdown,
                    nth |-> call[p].nth,
                    ingests |-> r.cons.ingests - cons.ingests,
                    shutdowns |-> r.cons.shutdowns - cons.shutdowns,
                    got |-> r.cons.got, printed |-> -1]
  /\ pc' = [pc EXCEPT ![p] = "idle"]
  /\ call' = [call EXCEPT ![p] = NoCall]
  /\ UNCHANGED << nf, se, exp, nCalls, shutStarted >>
  /\ UNCHANGED << te, simVars, transVars >>

\* The program calls collex.TracesExporter(e).
DoTracesExporter ==
  /\ nf = NilObj
  /\ te = NilObj
  /\ sim = NilObj
  /\ \E e \in CollExporters : te' = [e |-> e, exp |-> TracesExporter(e)]
  /\ UNCHANGED << nf, se, exp, cons, pc, call, nCalls, shutStarted, shutOk, last >>
  /\ UNCHANGED << simVars, transVars >>

\* The demo builds traceExporter := &simulatedExporter{config: cfg}.
DoNewSimulatedExporter ==
  /\ nf = NilObj
  /\ te = NilObj
  /\ sim = NilObj
  /\ \E cfg \in DemoConfigs : sim' = [config |-> cfg]
  /\ UNCHANGED << nf, se, exp, cons, pc, call, nCalls, shutStarted, shutOk, last >>
  /\ UNCHANGED << te, simCalls, simShut, simLast, transVars >>

\* The SDK's batcher calls ExportSpans(ctx, spans) on the simulatedExporter.
SimCallExportSpans ==
  /\ sim # NilObj
  /\ simCalls < MaxCalls
  /\ \E spans \in Batches :
       LET r == SimExportSpans(sim, cons, Background, spans)
       IN /\ sim' = r.e
          /\ cons' = r.cons
          /\ simLast' = [op |-> "export", ret |-> r.ret, before |-> sim,
                         afterShutdown |-> simShut, printed |-> r.printed]
  /\ simCalls' = simCalls + 1
  /\ UNCHANGED << nf, se, exp, pc, call, nCalls, shutStarted, shutOk, last >>
  /\ UNCHANGED << te, simShut, transVars >>

\* The tracer provider calls Shutdown(ctx) on the simulatedExporter.
SimCallShutdown ==
  /\ sim # NilObj
  /\ simCalls < MaxCalls
  /\ LET r == SimShutdown(sim, cons, Background)
     IN /\ sim' = r.e
        /\ cons' = r.cons
        /\ simShut' = (simShut \/ r.ret = NoErr)
        /\ simLast' = [op |-> "shutdown", ret |-> r.ret, before |-> sim,
                       afterShutdown |-> simShut, printed |-> r.printed]
  /\ simCalls' = simCalls + 1
  /\ UNCHANGED << nf, se, exp, pc, call, nCalls, shutStarted, shutOk, last >>
  /\ UNCHANGED << te, transVars >>

Next ==
  \/ DoNewFactory
  \/ DoTracesExporter
  \/ DoNewSimulatedExporter
  \/ SimCallExportSpans
  \/ SimCallShutdown
  \/ DoSpanExporter
  \/ \E p \in Callers : CallExportSpans(p)
  \/ \E p \in Callers : CallShutdown(p)
  \/ \E p \in Callers : CtxDone(p)
  \/ \E p \in Callers : ReturnExportSpans(p)
  \/ \E p \in Callers : ReturnShutdown(p)

Spec == Init /\ [][Next]_vars

\* ------------------------------------------- the translator on its own
\* Any batch is handed to the translator; no exporter is involved.
TInit ==
  /\ nf = NilObj
  /\ se = NilObj
  /\ exp = NilObj
  /\ cons = FreshConsumer
  /\ pc = [p \in Callers |-> "idle"]
  /\ call = [p \in Callers |-> NoCall]
  /\ nCalls = 0
  /\ shutStarted = 0
  /\ shutOk = 0
  /\ last = NoCall
  /\ te = NilObj
  /\ sim = NilObj
  /\ simCalls = 0
  /\ simShut = FALSE
  /\ simLast = NoCall
  /\ batch \in SpanBatches
  /\ td = NoTranslation

\* translate(batch) runs.
DoTranslate ==
  /\ ~td.done
  /\ td' = [done |-> TRUE, out |-> Translate(batch)]
  /\ UNCHANGED << nf, se, exp, cons, pc, call, nCalls, shutStarted, shutOk, last >>
  /\ UNCHANGED << te, simVars, batch >>

TNext == DoTranslate

SpecTranslate == TInit /\ [][TNext]_vars

\* ------------------------------------------------------------- properties
\* The adapter keeps no state of its own; "Ready" and "Shutdown" are read off
\* the history: a call is made in the Shutdown state when some Shutdown call
\* had returned nil before it started (afterShutdown), else in Ready.
ExportReturned == last.op = "export"
ShutdownReturned == last.op = "shutdown"
InReady == ~last.afterShutdown

\* The adapter's own "closed" error and the cancellation kind of error.
ClosedError == "adapter closed"
CancellationErrors == { "context deadline exceeded", "context canceled" }
\* The answers of the wrapped consumer that are errors of its own.
IsConsumerError(r) == r \notin { NoErr, "block", "pending" }

\* C1: once a Shutdown call has returned success, every later ExportSpans
\* call returns ClosedError and does not invoke the consumer's ConsumeTraces.
C1_ClosedStateRejection ==
  (ExportReturned /\ last.afterShutdown)
    => (last.ret = ClosedError /\ last.ingests = 0)

\* C2: a second (or later) Shutdown call returns nil, and the wrapped
\* consumer's Shutdown has been invoked at most once in total.
C2_IdempotentShutdown ==
  (ShutdownReturned /\ last.nth >= 2)
    => (last.ret = NoErr /\ cons.shutdowns <= 1)

\* C2 witness: two Shutdown calls were made and both have returned.
C2_Witness ==
  ShutdownReturned /\ last.nth = 2 /\ shutOk = 2 /\ shutStarted = 2

C4_ForwardExactlyOnce ==
  (ExportReturned /\ InReady) => last.ingests = 1

\* C5: a Shutdown call made in Ready invokes the wrapped consumer's Shutdown
\* (every collector traces exporter exposes one) and returns its result.
C5_ShutdownForwarding ==
  (ShutdownReturned /\ InReady)
    => (last.shutdowns = 1 /\ last.ret = exp.cexp.onShutdown)

\* C6: no ConsumeTraces reaches the consumer after its Shutdown has started,
\* and no caller is inside ExportSpans while another is inside Shutdown.
C6_MutualExclusion ==
  /\ cons.lateIngests = 0
  /\ ~ \E p, q \in Callers : pc[p] = "export" /\ pc[q] = "shutdown"

CreateCall == se.calls[Len(se.calls)]
UsedDefaultConfig == \E i \in 1..Len(se.calls) : se.calls[i].m = "CreateDefaultConfig"

\* C8: SpanExporter returns an error iff CreateTracesExporter did; then it
\* returns that error and a nil exporter, else a non-nil exporter wrapping
\* the created collector exporter and a nil error.
C8_ConstructionErrorPropagation ==
  se # NilObj =>
    /\ (se.err # NoErr) <=> (CreateCall.ret.err # NoErr)
    /\ CreateCall.ret.err # NoErr
         => (se.err = CreateCall.ret.err /\ se.exp = NilObj)
    /\ CreateCall.ret.err = NoErr
         => (se.exp # NilObj /\ se.exp.cexp = CreateCall.ret.exp /\ se.err = NoErr)

\* C8 witness: CreateTracesExporter rejected the configuration.
C8_Witness ==
  se # NilObj /\ CreateCall.ret.err = "ErrInvalidConfig" /\ se.exp = NilObj

\* C9: with a nil cfg the collector exporter is built with the factory's
\* CreateDefaultConfig(); with a non-nil cfg it is built with exactly that
\* cfg and CreateDefaultConfig is not called.
C9_DefaultConfiguration ==
  se # NilObj =>
    /\ CreateCall.set = nf.fac.createCfg
    /\ se.cfg = NilCfg
         => (UsedDefaultConfig /\ CreateCall.cfg = CreateDefaultConfig(nf.f))
    /\ se.cfg # NilCfg
         => (~UsedDefaultConfig /\ CreateCall.cfg = se.cfg)

\* C9 witness: a nil cfg, and an exporter built with the factory default.
C9_Witness ==
  /\ se # NilObj /\ se.cfg = NilCfg /\ se.err = NoErr
  /\ se.exp.cexp.cfg = "cfgSlowDefault"

\* C10: with a nil set NewFactory builds the default settings (Command
\* "collex", the translator Description, Version "latest") and fails only
\* if zap.NewProduction fails; with a non-nil set it never fails and the
\* Factory holds the value of *set; the collector factory is held unchanged.
C10_NewFactorySettings ==
  nf # NilObj =>
    /\ nf.set = NilObj =>
         /\ (nf.err # NoErr) <=> (nf.z.err # NoErr)
         /\ nf.err # NoErr => (nf.err = nf.z.err /\ nf.fac = NilObj)
         /\ nf.err = NoErr =>
              /\ nf.fac.createCfg.Command = "collex"
              /\ nf.fac.createCfg.Description =
                   "OpenTelemetry Collector to OpenTelemetry Go translator"
              /\ nf.fac.createCfg.Version = "latest"
              /\ nf.fac.createCfg.Logger = nf.z.logger
              /\ nf.fac.collFactory = nf.f
    /\ nf.set # NilObj =>
         /\ nf.err = NoErr
         /\ nf.fac.createCfg = nf.set
         /\ nf.fac.collFactory = nf.f

\* C10 witness: a non-nil set was given while zap could not build a logger.
C10_Witness ==
  nf # NilObj /\ nf.set # NilObj /\ nf.z.err # NoErr /\ nf.err = NoErr

\* C11: TracesExporter(e) returns a non-nil span exporter that wraps e.
C11_TracesExporterWraps ==
  te # NilObj => (te.exp # NilObj /\ te.exp.cexp = te.e)

\* The positions <<k, j, m>> of the spans of the translator's output.
OutPositions ==
  UNION { UNION { { << k, j, m >> :
                      m \in 1..Len(td.out[k].scopeSpans[j].spans) } :
                  j \in 1..Len(td.out[k].scopeSpans) } :
          k \in 1..Len(td.out) }
\* The input positions of the spans of Resource value r (and scope value s).
SpansOfRes(r) == { i \in 1..Len(batch) : batch[i].res.val = r }
SpansOfScope(r, s) == { i \in SpansOfRes(r) : batch[i].scope.val = s }
First(S) == IF S = {} THEN 0 ELSE CHOOSE x \in S : \A y \in S : x <= y

\* C12: the output has exactly one Resource group per distinct Resource
\* value of the batch and, inside it, exactly one scope group per distinct
\* scope value occurring with that Resource; every input span is in exactly
\* one scope group (that of its Resource and scope), and the output holds as
\* many spans as the batch.
C12_GroupingPartition ==
  td.done =>
    /\ Len(td.out) = Cardinality({ batch[i].res.val : i \in 1..Len(batch) })
    /\ { td.out[k].resource : k \in 1..Len(td.out) }
         = { batch[i].res.val : i \in 1..Len(batch) }
    /\ \A k \in 1..Len(td.out) :
         LET sc == { batch[i].scope.val : i \in SpansOfRes(td.out[k].resource) }
             g == td.out[k].scopeSpans
         IN /\ Len(g) = Cardinality(sc)
            /\ { g[j].scope : j \in 1..Len(g) } = sc
    /\ \A i \in 1..Len(batch) :
         LET at == { q \in OutPositions :
                      td.out[q[1]].scopeSpans[q[2]].spans[q[3]].name
                        = batch[i].name }
         IN /\ Cardinality(at) = 1
            /\ \A q \in at :
                 /\ td.out[q[1]].resource = batch[i].res.val
                 /\ td.out[q[1]].scopeSpans[q[2]].scope = batch[i].scope.val
    /\ Cardinality(OutPositions) = Len(batch)

\* C12 witness: two spans whose Resources are distinct objects of equal
\* value and a third span of another Resource were translated into two
\* Resource groups.
C12_Witness ==
  /\ td.done /\ Len(batch) = 3
  /\ batch[1].res # batch[2].res /\ batch[1].res.val = batch[2].res.val
  /\ batch[3].res.val # batch[1].res.val
  /\ Len(td.out) = 2

\* C13: Resource groups come in the order in which their Resource first
\* occurs in the batch, and inside a Resource group the scope groups come in
\* the order in which their scope first occurs with that Resource.
C13_StableGroupOrder ==
  td.done =>
    /\ \A k, l \in 1..Len(td.out) :
         k < l => First(SpansOfRes(td.out[k].resource))
                    < First(SpansOfRes(td.out[l].resource))
    /\ \A k \in 1..Len(td.out) :
         LET r == td.out[k].resource
             g == td.out[k].scopeSpans
         IN \A j, h \in 1..Len(g) :
              j < h => First(SpansOfScope(r, g[j].scope))
                         < First(SpansOfScope(r, g[h].scope))

\* C13 witness: 2 spans under A/X then 1 under B/Y gave the groups A then B,
\* of one scope group each, with 2 and 1 spans.
C13_Witness ==
  /\ td.done /\ Len(batch) = 3
  /\ batch[1].res.val = "A" /\ batch[1].scope.val = "X"
  /\ batch[2].res.val = "A" /\ batch[2].scope.val = "X"
  /\ batch[3].res.val = "B" /\ batch[3].scope.val = "Y"
  /\ Len(td.out) = 2
  /\ td.out[1].resource = "A" /\ Len(td.out[1].scopeSpans) = 1
  /\ Len(td.out[1].scopeSpans[1].spans) = 2
  /\ td.out[2].resource = "B" /\ Len(td.out[2].scopeSpans) = 1
  /\ Len(td.out[2].scopeSpans[1].spans) = 1

====
